---- MODULE Spec2Model ----
(***************************************************************************)
(* Model of capture_YT_comments.py: main() walks the video identifier list *)
(* in slices of BATCH_SIZE; process_video_batch() opens one session, runs  *)
(* one fetch_comments() coroutine per identifier under asyncio.gather and  *)
(* flattens the results; insert_comments_batch() writes them with INSERT   *)
(* OR IGNORE and main() commits.                                           *)
(***************************************************************************)
EXTENDS Integers, Sequences, FiniteSets, TLC

\* ---------------------------------------------------------------- bounds
MaxVideos == 3
MaxBatchSize == 2

\* ------------------------------------------------------ configuration
\* config["retries"]: the attempt count of fetch_comments_with_retry.
RETRIES == 3

\* ------------------------------------------------------- input domains
VideoIds == {"v1", "v2"}

\* The CSV column: v1, v2, v1, ... cut at any length up to MaxVideos (an
\* identifier may occur more than once).
VideoColumn == [p \in 1..MaxVideos |-> IF p % 2 = 1 THEN "v1" ELSE "v2"]
CommentIds == {"c1", "c2"}
RawTexts == {"a &amp; b", "x"}
Null == "NULL"

\* HTTP statuses the API may answer with; 500 stands for every status that
\* is neither 200 nor 403.
Statuses == {200, 403, 500}

\* error.errors[0].reason and error.message as sequences of words; the
\* needles of line 65 are word sequences too.
Reasons == {<<"commentsDisabled">>, <<"quotaExceeded">>}
Messages == {<<"has", "disabled", "comments">>, <<"quota", "exceeded">>}

Min(a, b) == IF a < b THEN a ELSE b

Range(s) == {s[k] : k \in 1..Len(s)}

SeqsUpTo(S, n) == UNION {[1..k -> S] : k \in 0..n}

\* A commentThreads item as far as fetch_comments reads it.
RawItems == [id : CommentIds, textDisplay : RawTexts]

NoBody == [kind |-> "none"]
NonJsonBody == [kind |-> "nonjson"]

\* The "items" lists of a 200 answer: none, one item, and two items that
\* carry the same id.
ItemLists ==
    {<<>>} \cup {<<item>> : item \in RawItems}
    \cup {<<[id |-> "c1", textDisplay |-> "x"],
             [id |-> "c1", textDisplay |-> "a &amp; b"]>>}

\* Bodies of a 200 answer: a JSON document with an "items" list.
ThreadBodies == [kind : {"threads"}, items : ItemLists]

\* Bodies of a 403 answer: {"error": {"errors": [...], "message": ...}};
\* the "errors" key may be missing, empty, or hold one entry with a reason.
ErrorBodies ==
    [kind : {"error"}, hasErrors : {FALSE}, errors : {<<>>}, message : Messages]
    \cup [kind : {"error"}, hasErrors : {TRUE},
          errors : SeqsUpTo(Reasons, 1), message : Messages]

Bodies(status) ==
    IF status = 200 THEN ThreadBodies \cup {NonJsonBody}
    ELSE ErrorBodies \cup {NonJsonBody}

\* The store as it may be found when the run starts: empty, or with the row
\* an earlier run wrote for c1, from a text the API no longer gives or from
\* one it still gives.
InitialStores ==
    {{}, {[id |-> "c1", video_id |-> "v1", text |-> "old",
           is_reply |-> FALSE, is_reply_to |-> Null]},
         {[id |-> "c1", video_id |-> "v1", text |-> "x",
           is_reply |-> FALSE, is_reply_to |-> Null]}}

VARIABLES
    video_ids,    \* main: the identifier column of the CSV
    BATCH_SIZE,   \* config["batch_size"]
    pc,           \* main's position
    i,            \* main: the loop index of range(0, len(video_ids), BATCH_SIZE)
    batch,        \* main: the current slice
    session,      \* process_video_batch: the aiohttp session
    tasks,        \* process_video_batch: one fetch_comments coroutine per identifier
    comments,     \* main: the list process_video_batch returned
    j,            \* executemany: rows of comments already executed
    conn,         \* the table as the connection sees it (uncommitted rows included)
    store,        \* the table as it is durably stored
    log,          \* the lines written through logging
    requests,     \* per position of video_ids: the requests issued for it
    batches,      \* history: the slices the loop formed
    resolved,     \* history: the positions whose coroutine finished
    settled,      \* history: the loop indexes whose batch was committed or was empty
    snapshot,     \* history: the durable table when the current batch began
    written,      \* history: the rows the connection held at the last commit
    results,      \* history: the result lists the current batch's gather returned
    firstRow,     \* history: per id, the row of its first insertion
    open_sessions,\* the sessions (numbered as they are created) that are open
    issued_on,    \* history: per position, the session its request was issued on
    nonempty,     \* history: the loop indexes whose batch returned comments
    initial,      \* history: the durable table when the process started
    parent_id,    \* fetch_replies: its parent_id argument
    video_id_arg, \* fetch_replies, fetch_comments_with_retry: the video_id argument
    replies,      \* fetch_replies: the list it returned
    attempt,      \* fetch_comments_with_retry: the loop variable of range(RETRIES)
    outcomes,     \* history: what each call of line 41 did, in order
    sleeps,       \* fetch_comments_with_retry: the time.sleep(DELAY) calls made
    returned      \* fetch_comments_with_retry: the list it returned

config == <<video_ids, BATCH_SIZE>>
history == <<batches, resolved, settled, snapshot, written, results, firstRow>>
net == <<open_sessions, issued_on>>
marks == <<nonempty, initial>>
direct == <<parent_id, video_id_arg, replies, attempt, outcomes, sleeps, returned>>

vars == <<video_ids, BATCH_SIZE, pc, i, batch, session, tasks, comments, j, conn,
          store, log, requests, batches, resolved, settled, snapshot, written,
          results, firstRow, net, marks, direct>>

\* -------------------------------------------------------------- helpers
Ids(table) == {r.id : r \in table}

Line(level, msg, arg) == [level |-> level, msg |-> msg, arg |-> arg]

\* x in y for Python strings, at the granularity of words: needle occurs
\* in hay as a contiguous run.
Contains(needle, hay) ==
    \E k \in 0..(Len(hay) - Len(needle)) :
        \A m \in 1..Len(needle) : hay[k + m] = needle[m]

\* html.unescape on the texts of RawTexts.
Unescape(text) == IF text = "a &amp; b" THEN "a & b" ELSE text

\* The row fetch_comments builds from one item (the fields no operation of
\* the program reads back are left out).
Normalize(item, video_id) ==
    [id |-> item.id, video_id |-> video_id, text |-> Unescape(item.textDisplay),
     is_reply |-> FALSE, is_reply_to |-> Null]

NormalizeAll(items, video_id) ==
    [k \in 1..Len(items) |-> Normalize(items[k], video_id)]

\* error_response.get("error", {}).get("errors", [{}])[0] raises IndexError
\* on an empty "errors" list.
ReasonRaises(body) == body.hasErrors /\ body.errors = <<>>

\* ....get("errors", [{}])[0].get("reason", "")
ReasonOf(body) == IF body.hasErrors THEN body.errors[1] ELSE <<>>

\* "commentsDisabled" in reason or "disabled comments" in message
CommentsDisabled(reason, message) ==
    \/ Contains(<<"commentsDisabled">>, reason)
    \/ Contains(<<"disabled", "comments">>, message)

\* Variant of Slice: the slice stops one identifier early.
SliceShort(ids, from, size) == SubSeq(ids, from + 1, Min(from + size, Len(ids)) - 1)
\* video_ids[i:i + BATCH_SIZE]
Slice(ids, from, size) == SubSeq(ids, from + 1, Min(from + size, Len(ids)))

\* Variant of InRange: the range ends before a last, shorter slice.
InRangeEarlyStop(from, n, size) == from + size < n
\* range(0, len(video_ids), BATCH_SIZE) still has the index `from`
InRange(from, n, size) == from < n

\* Variant of GatherDone: a wait that returns with the first finished task.
GatherFirst(ts) == \E t \in 1..Len(ts) : ts[t].st = "done"
\* asyncio.gather(*tasks) returns once every task has finished
GatherDone(ts) == \A t \in 1..Len(ts) : ts[t].st = "done"

\* gather raises the exception of a task that raised
GatherRaised(ts) == \E t \in 1..Len(ts) : ts[t].st = "raised"

\* Variant of Flatten: only the first result list is kept.
FlattenFirst(lists) == IF lists = <<>> THEN <<>> ELSE Head(lists)
\* [comment for result in results for comment in result if result]
RECURSIVE Flatten(_)
Flatten(lists) ==
    IF lists = <<>> THEN <<>> ELSE Head(lists) \o Flatten(Tail(lists))

\* Variant of InsertOrIgnore: INSERT OR REPLACE.
InsertOrReplace(table, row) == {r \in table : r.id # row.id} \cup {row}
\* INSERT OR IGNORE INTO comments ... for one row: id is the primary key
InsertOrIgnore(table, row) ==
    IF row.id \in Ids(table) THEN table ELSE table \cup {row}

\* Variant of AfterExecute: a connection in autocommit mode.
Autocommit(durable, seen) == seen
\* What is durable after a statement ran on the connection: sqlite3.connect
\* opens the connection with implicit transactions, so nothing new.
AfterExecute(durable, seen) == durable

\* Variant of Commit: the commit is missing.
CommitNothing(durable, seen) == durable
\* conn.commit()
Commit(durable, seen) == seen

\* Variant of BatchNo: the batches are numbered from 0.
BatchNoFromZero(from, size) == from \div size
\* i // BATCH_SIZE + 1
BatchNo(from, size) == (from \div size) + 1

\* async with aiohttp.ClientSession() as session: entering the block.
OpenSession(open, k) == open \cup {k}

\* Variant of CloseSession: the session is left open.
LeakSession(open, k) == open
\* async with aiohttp.ClientSession() as session: leaving the block, by a
\* return or by an exception.
CloseSession(open, k) == open \ {k}

Task(st, status, body, result) ==
    [st |-> st, status |-> status, body |-> body, result |-> result]

Running(task) == task.st \in {"inflight", "reading"}

\* ----------------------------------------------------------------- Init
Init ==
    /\ video_ids \in {SubSeq(VideoColumn, 1, n) : n \in 0..MaxVideos}
    /\ BATCH_SIZE \in 1..MaxBatchSize
    /\ store \in InitialStores
    /\ conn = store
    /\ snapshot = store
    /\ firstRow = store
    /\ written = store
    /\ pc = "loop"
    /\ i = 0
    /\ batch = <<>>
    /\ session = "none"
    /\ tasks = <<>>
    /\ comments = <<>>
    /\ j = 0
    /\ log = <<>>
    /\ requests = [p \in 1..Len(video_ids) |-> 0]
    /\ batches = <<>>
    /\ resolved = {}
    /\ settled = {}
    /\ results = <<>>
    /\ open_sessions = {}
    /\ issued_on = [p \in 1..Len(video_ids) |-> 0]
    /\ nonempty = {}
    /\ initial = store
    /\ parent_id = Null
    /\ video_id_arg = Null
    /\ replies = <<>>
    /\ attempt = 0
    /\ outcomes = <<>>
    /\ sleeps = 0
    /\ returned = <<>>

\* -------------------------------------------------------------- actions
\* main, lines 161-162: the next index of the range and its slice.
main_next_batch ==
    /\ pc = "loop"
    /\ InRange(i, Len(video_ids), BATCH_SIZE)
    /\ batch' = Slice(video_ids, i, BATCH_SIZE)
    /\ batches' = Append(batches, batch')
    /\ snapshot' = store
    /\ results' = <<>>
    /\ pc' = "run"
    /\ UNCHANGED <<config, direct, net, marks, i, session, tasks, comments, j,
                   conn, store, log, requests, resolved, settled, written,
                   firstRow>>

\* process_video_batch, lines 98-100, and fetch_comments, lines 49-58: the
\* session is opened and one coroutine per identifier is handed to gather;
\* the event loop runs each, in list order, up to its session.get before any
\* answer can be read, so every request of the batch is issued here.
process_video_batch_enter ==
    /\ pc = "run"
    /\ session' = "open"
    /\ tasks' = [t \in 1..Len(batch) |-> Task("inflight", 0, NoBody, <<>>)]
    /\ requests' = [p \in 1..Len(video_ids) |->
                       IF p \in (i + 1)..(i + Len(batch))
                       THEN requests[p] + 1 ELSE requests[p]]
    /\ open_sessions' = OpenSession(open_sessions, Len(batches))
    /\ issued_on' = [p \in 1..Len(video_ids) |->
                        IF p \in (i + 1)..(i + Len(batch))
                        THEN Len(batches) ELSE issued_on[p]]
    /\ pc' = "gather"
    /\ UNCHANGED <<config, direct, marks, i, batch, comments, j, conn, store, log,
                   history>>

\* fetch_comments, lines 58-59 and 71-73: the answer's status arrives; a
\* status other than 200 and 403 is logged and ends the coroutine.
fetch_comments_status(t) ==
    /\ pc = "gather"
    /\ tasks[t].st = "inflight"
    /\ \E status \in Statuses :
        IF status \in {200, 403}
        THEN /\ tasks' = [tasks EXCEPT ![t].st = "reading", ![t].status = status]
             /\ UNCHANGED <<log, resolved>>
        ELSE /\ tasks' = [tasks EXCEPT ![t].st = "done", ![t].status = status]
             /\ log' = Append(log, Line("ERROR", "http", i + t))
             /\ resolved' = resolved \cup {i + t}
    /\ UNCHANGED <<config, direct, net, marks, pc, i, batch, session,
                   comments, j, conn, store, requests, batches, settled,
                   snapshot, written, results, firstRow>>

\* fetch_comments, line 58: the request fails below HTTP (aiohttp raises).
fetch_comments_fault(t) ==
    /\ pc = "gather"
    /\ tasks[t].st = "inflight"
    /\ tasks' = [tasks EXCEPT ![t].st = "raised"]
    /\ UNCHANGED <<config, direct, net, marks, pc, i, batch, session,
                   comments, j, conn, store, log, requests, history>>

\* fetch_comments, lines 59-69: the body of a 403 answer.
fetch_comments_403(t) ==
    /\ pc = "gather"
    /\ tasks[t].st = "reading"
    /\ tasks[t].status = 403
    /\ \E body \in Bodies(403) :
        IF body.kind = "nonjson" \/ ReasonRaises(body)
        THEN /\ tasks' = [tasks EXCEPT ![t].st = "raised", ![t].body = body]
             /\ UNCHANGED <<log, resolved>>
        ELSE /\ tasks' = [tasks EXCEPT ![t].st = "done", ![t].body = body]
             /\ log' = Append(log,
                    IF CommentsDisabled(ReasonOf(body), body.message)
                    THEN Line("INFO", "disabled", i + t)
                    ELSE Line("ERROR", "forbidden", i + t))
             /\ resolved' = resolved \cup {i + t}
    /\ UNCHANGED <<config, direct, net, marks, pc, i, batch, session,
                   comments, j, conn, store, requests, batches, settled,
                   snapshot, written, results, firstRow>>

\* fetch_comments, lines 76-95: the body of a 200 answer.
fetch_comments_200(t) ==
    /\ pc = "gather"
    /\ tasks[t].st = "reading"
    /\ tasks[t].status = 200
    /\ \E body \in Bodies(200) :
        IF body.kind = "nonjson"
        THEN /\ tasks' = [tasks EXCEPT ![t].st = "raised", ![t].body = body]
             /\ UNCHANGED resolved
        ELSE /\ tasks' = [tasks EXCEPT ![t].st = "done", ![t].body = body,
                              ![t].result = NormalizeAll(body.items, batch[t])]
             /\ resolved' = resolved \cup {i + t}
    /\ UNCHANGED <<config, direct, net, marks, pc, i, batch, session,
                   comments, j, conn, store, log, requests, batches, settled,
                   snapshot, written, results, firstRow>>

\* process_video_batch, line 100, and main, lines 157 and 163: gather
\* re-raises a coroutine's exception; nothing catches it, so the session is
\* closed, asyncio.run cancels the coroutines still running, the connection
\* rolls back and the process ends.
gather_raise ==
    /\ pc = "gather"
    /\ GatherRaised(tasks)
    /\ tasks' = <<>>
    /\ session' = "closed"
    /\ batch' = <<>>
    /\ comments' = <<>>
    /\ j' = 0
    /\ conn' = store
    /\ open_sessions' = CloseSession(open_sessions, Len(batches))
    /\ pc' = "aborted"
    /\ UNCHANGED <<config, direct, marks, issued_on, i, store, log, requests,
                   history>>

\* process_video_batch, lines 100-101, and main, lines 163-164: gather
\* returns, the results are flattened, the session is closed; an empty list
\* sends main to the next index.
process_video_batch_return ==
    /\ pc = "gather"
    /\ ~GatherRaised(tasks)
    /\ GatherDone(tasks)
    /\ comments' = Flatten([t \in 1..Len(tasks) |-> tasks[t].result])
    /\ results' = [t \in 1..Len(tasks) |-> tasks[t].result]
    /\ tasks' = <<>>
    /\ session' = "closed"
    /\ j' = 0
    /\ open_sessions' = CloseSession(open_sessions, Len(batches))
    /\ IF comments' # <<>>
       THEN /\ pc' = "insert"
            /\ nonempty' = nonempty \cup {i}
            /\ UNCHANGED <<i, settled>>
       ELSE /\ pc' = "loop"
            /\ i' = i + BATCH_SIZE
            /\ settled' = settled \cup {i}
            /\ UNCHANGED nonempty
    /\ UNCHANGED <<config, direct, initial, issued_on, batch, conn, store, log,
                   requests, batches, resolved, snapshot, written, firstRow>>

\* insert_comments_batch, lines 133-148: executemany runs the statement for
\* the next row of the list.
insert_comments_batch ==
    /\ pc = "insert"
    /\ j < Len(comments)
    /\ conn' = InsertOrIgnore(conn, comments[j + 1])
    /\ store' = AfterExecute(store, conn')
    /\ firstRow' = IF comments[j + 1].id \in Ids(firstRow) THEN firstRow
                   ELSE firstRow \cup {comments[j + 1]}
    /\ j' = j + 1
    /\ pc' = IF j' = Len(comments) THEN "commit" ELSE "insert"
    /\ UNCHANGED <<config, direct, net, marks, i, batch, session, tasks,
                   comments, log, requests, batches, resolved, settled,
                   snapshot, written, results>>

\* main, line 166: conn.commit().
main_commit ==
    /\ pc = "commit"
    /\ store' = Commit(store, conn)
    /\ written' = conn
    /\ settled' = settled \cup {i}
    /\ pc' = "log"
    /\ UNCHANGED <<config, direct, net, marks, i, batch, session, tasks,
                   comments, j, conn, log, requests, batches, resolved,
                   snapshot, results, firstRow>>

\* main, line 167 and the loop's step: the batch line is logged.
main_log_batch ==
    /\ pc = "log"
    /\ log' = Append(log, Line("INFO", "inserted", BatchNo(i, BATCH_SIZE)))
    /\ i' = i + BATCH_SIZE
    /\ pc' = "loop"
    /\ UNCHANGED <<config, direct, net, marks, batch, session, tasks,
                   comments, j, conn, store, requests, history>>

\* main, line 157: the range is exhausted and the with block is left, which
\* commits the connection.
main_exit ==
    /\ pc = "loop"
    /\ ~InRange(i, Len(video_ids), BATCH_SIZE)
    /\ store' = Commit(store, conn)
    /\ pc' = "exit"
    /\ UNCHANGED <<config, direct, net, marks, i, batch, session, tasks,
                   comments, j, conn, log, requests, history>>

\* main, line 169: the final line.
main_success ==
    /\ pc = "exit"
    /\ log' = Append(log, Line("INFO", "success", 0))
    /\ pc' = "done"
    /\ UNCHANGED <<config, direct, net, marks, i, batch, session, tasks,
                   comments, j, conn, store, requests, history>>

\* The process is killed (or the machine stops): its memory is gone, what
\* the connection had not committed is gone, what was durable stays.
crash ==
    /\ pc \notin {"done", "aborted", "crashed"}
    /\ pc' = "crashed"
    /\ tasks' = <<>>
    /\ session' = "closed"
    /\ batch' = <<>>
    /\ comments' = <<>>
    /\ j' = 0
    /\ conn' = store
    /\ open_sessions' = {}
    /\ UNCHANGED <<config, direct, marks, issued_on, i, store, log, requests,
                   history>>

Step ==
    \/ main_next_batch
    \/ process_video_batch_enter
    \/ \E t \in 1..Len(tasks) : fetch_comments_status(t)
    \/ \E t \in 1..Len(tasks) : fetch_comments_fault(t)
    \/ \E t \in 1..Len(tasks) : fetch_comments_403(t)
    \/ \E t \in 1..Len(tasks) : fetch_comments_200(t)
    \/ gather_raise
    \/ process_video_batch_return
    \/ insert_comments_batch
    \/ main_commit
    \/ main_log_batch
    \/ main_exit
    \/ main_success

Next == Step \/ crash

Spec == Init /\ [][Next]_vars

\* Every request is answered and the process is not killed: each step that
\* can be taken is taken.
FairSpec == Init /\ [][Step]_vars /\ WF_vars(Step)

\* ------------------------------------------------- the functions called
\* ------------------------------------------------- directly, not by main
\* The module defines fetch_replies and fetch_comments_with_retry, and main
\* calls neither: they run only when a caller of the module calls them.

\* The parent_id a caller may pass to fetch_replies: a comment id, or None.
ParentIds == CommentIds \cup {Null}

\* Variant of NormalizeReply: the parent link is not recorded.
NormalizeReplyUnlinked(item, parent, video) ==
    [id |-> item.id, video_id |-> video, text |-> Unescape(item.textDisplay),
     is_reply |-> TRUE, is_reply_to |-> Null]
\* The row fetch_replies builds from one item, lines 115-128.
NormalizeReply(item, parent, video) ==
    [id |-> item.id, video_id |-> video, text |-> Unescape(item.textDisplay),
     is_reply |-> TRUE, is_reply_to |-> parent]

\* What one call fetch_comments(video_id) of line 41 did: it raised, or it
\* returned a value.
Raised == [raised |-> TRUE, value |-> <<>>]
Returned(value) == [raised |-> FALSE, value |-> value]

\* As written the call passes one argument to a function of two (session,
\* video_id) and raises TypeError every time; a call that returns is kept
\* as an outcome so that line 41's return is modelled as well.
CallOutcomes(video) ==
    {Raised} \cup {Returned(NormalizeAll(items, video)) : items \in ItemLists}

\* Variant of InRetryRange: one attempt too many.
InRetryRangeInclusive(n) == n <= RETRIES
\* for attempt in range(RETRIES) still has the value n
InRetryRange(n) == n < RETRIES

\* The state in which a caller has just called one of the two functions.
DirectInit ==
    /\ pc \in {"fetch_replies", "fetch_comments_with_retry"}
    /\ parent_id \in (IF pc = "fetch_replies" THEN ParentIds ELSE {Null})
    /\ video_id_arg \in VideoIds
    /\ video_ids = <<>>
    /\ BATCH_SIZE \in 1..MaxBatchSize
    /\ store \in InitialStores
    /\ conn = store
    /\ snapshot = store
    /\ firstRow = store
    /\ written = store
    /\ initial = store
    /\ i = 0
    /\ batch = <<>>
    /\ session = "none"
    /\ tasks = <<>>
    /\ comments = <<>>
    /\ j = 0
    /\ log = <<>>
    /\ requests = <<>>
    /\ issued_on = <<>>
    /\ batches = <<>>
    /\ resolved = {}
    /\ settled = {}
    /\ results = <<>>
    /\ open_sessions = {}
    /\ nonempty = {}
    /\ replies = <<>>
    /\ attempt = 0
    /\ outcomes = <<>>
    /\ sleeps = 0
    /\ returned = <<>>


\* fetch_replies, lines 104-130: the request is executed and every item of
\* the answer becomes a reply row.
fetch_replies ==
    /\ pc = "fetch_replies"
    /\ \E items \in ItemLists :
          replies' = [k \in 1..Len(items) |->
                         NormalizeReply(items[k], parent_id, video_id_arg)]
    /\ pc' = "returned"
    /\ UNCHANGED <<config, history, net, marks, i, batch, session, tasks,
                   comments, j, conn, store, log, requests, parent_id,
                   video_id_arg, attempt, outcomes, sleeps, returned>>

\* fetch_replies, line 112: request.execute() raises (HttpError); nothing
\* in fetch_replies catches it.
fetch_replies_raise ==
    /\ pc = "fetch_replies"
    /\ pc' = "raised"
    /\ UNCHANGED <<config, history, net, marks, direct, i, batch, session,
                   tasks, comments, j, conn, store, log, requests>>

\* fetch_comments_with_retry, lines 39-44: one pass of the loop; the call
\* returns, and so does the function, or it raises, which is logged with
\* the attempt's number and followed by time.sleep(DELAY).
fetch_comments_with_retry_attempt ==
    /\ pc = "fetch_comments_with_retry"
    /\ InRetryRange(attempt)
    /\ \E outcome \in CallOutcomes(video_id_arg) :
          /\ outcomes' = Append(outcomes, outcome)
          /\ IF outcome.raised
             THEN /\ log' = Append(log, Line("ERROR", "attempt", attempt + 1))
                  /\ sleeps' = sleeps + 1
                  /\ attempt' = attempt + 1
                  /\ UNCHANGED <<pc, returned>>
             ELSE /\ returned' = outcome.value
                  /\ pc' = "returned"
                  /\ UNCHANGED <<log, sleeps, attempt>>
    /\ UNCHANGED <<config, history, net, marks, i, batch, session, tasks,
                   comments, j, conn, store, requests, parent_id, video_id_arg,
                   replies>>

\* fetch_comments_with_retry, lines 45-46: the range is exhausted.
fetch_comments_with_retry_exhausted ==
    /\ pc = "fetch_comments_with_retry"
    /\ ~InRetryRange(attempt)
    /\ log' = Append(log, Line("ERROR", "exhausted", RETRIES))
    /\ returned' = <<>>
    /\ pc' = "returned"
    /\ UNCHANGED <<config, history, net, marks, i, batch, session, tasks,
                   comments, j, conn, store, requests, parent_id, video_id_arg,
                   replies, attempt, outcomes, sleeps>>

DirectStep ==
    \/ fetch_replies
    \/ fetch_replies_raise
    \/ fetch_comments_with_retry_attempt
    \/ fetch_comments_with_retry_exhausted

\* The module as a whole: main runs, or a caller calls one of the functions
\* that main leaves out.
ModuleInit == Init \/ DirectInit

ModuleNext == Next \/ DirectStep

ModuleSpec == ModuleInit /\ [][ModuleNext]_vars

\* ------------------------------------------------------------ vocabulary
Positions == 1..Len(video_ids)

\* The loop index of the batch that holds position p.
BatchStart(p) == ((p - 1) \div BATCH_SIZE) * BATCH_SIZE

LinesOf(level, msgs, arg) ==
    {k \in 1..Len(log) : log[k].level = level /\ log[k].msg \in msgs /\ log[k].arg = arg}

\* The answer body says that comments are disabled: some entry of "errors"
\* has a reason with commentsDisabled, or the message has "disabled comments".
SaysDisabled(body) ==
    /\ body.kind = "error"
    /\ \/ \E k \in 1..Len(body.errors) : Contains(<<"commentsDisabled">>, body.errors[k])
       \/ Contains(<<"disabled", "comments">>, body.message)

\* The rows the current batch's coroutines returned.
ReturnedRows == UNION {Range(results[t]) : t \in 1..Len(results)}

Terminated == pc \in {"done", "aborted", "crashed"}

\* ------------------------------------------------------------------- C1
\* C1: a 403 answer whose body says that comments are disabled ends the
\* coroutine with an empty list, one informational line, and one request
\* for that position.
C1_DisabledYieldsEmpty ==
    \A t \in 1..Len(tasks) :
        (tasks[t].status = 403 /\ SaysDisabled(tasks[t].body)) =>
            /\ tasks[t].st = "done"
            /\ tasks[t].result = <<>>
            /\ requests[i + t] = 1
            /\ Cardinality(LinesOf("INFO", {"disabled"}, i + t)) = 1

\* C1 for the bodies whose "errors" list is missing or not empty: there the
\* coroutine ends as C1 says, and logs no error line.
C1_ReadableBodies ==
    \A t \in 1..Len(tasks) :
        (/\ tasks[t].status = 403
         /\ SaysDisabled(tasks[t].body)
         /\ ~ReasonRaises(tasks[t].body)) =>
            /\ tasks[t].st = "done"
            /\ tasks[t].result = <<>>
            /\ requests[i + t] = 1
            /\ Cardinality(LinesOf("INFO", {"disabled"}, i + t)) = 1
            /\ LinesOf("ERROR", {"http", "forbidden"}, i + t) = {}

\* ------------------------------------------------------------------- C2
\* C2: a position whose every request ended in a retryable failure (a 403
\* that does not say disabled, or another status that is not 200) has been
\* requested RETRIES times when the run is done.
C2_RetriedUntilExhausted ==
    pc = "done" =>
        \A p \in Positions :
            LET failures == Cardinality(LinesOf("ERROR", {"http", "forbidden"}, p))
            IN (failures > 0 /\ failures = requests[p]) => requests[p] = RETRIES

\* ------------------------------------------------------------------- C3
\* C3: a coroutine that raises (the request fails below HTTP, the body is
\* not JSON, the "errors" list is empty) does not end the run: the run is
\* never aborted.
C3_FailureContained == pc # "aborted"

\* ------------------------------------------------------------------- C4
\* C4: of the rows a batch adds to the table, the durable table holds none
\* before the commit and all of them after it, never a part.
C4_BatchAtomic ==
    LET new == Ids(ReturnedRows) \ Ids(snapshot)
        visible == Ids(store) \ Ids(snapshot)
    IN /\ visible = {} \/ visible = new
       /\ pc \in {"insert", "commit"} => visible = {}
       /\ pc = "log" => visible = new

\* A batch with two new rows is half executed: one row is in the
\* connection, none is durable.
C4_Witness ==
    /\ pc = "insert"
    /\ j = 1
    /\ Cardinality(Ids(ReturnedRows) \ Ids(snapshot)) = 2
    /\ conn # store

\* ------------------------------------------------------------------- C5
\* C5: the table holds one row per id, the row of the id's first insertion,
\* whatever was inserted under that id afterwards.
C5_InsertIfAbsent ==
    /\ \A id \in Ids(store) : Cardinality({r \in store : r.id = id}) = 1
    /\ store \subseteq firstRow
    /\ ~Terminated =>
          \A first \in firstRow : {r \in conn : r.id = first.id} = {first}

\* The row just executed has an id the table already held with other
\* values, and it was ignored.
C5_Witness ==
    /\ pc \in {"insert", "commit"}
    /\ j >= 1
    /\ comments[j].id \in Ids(conn)
    /\ comments[j] \notin conn

\* ------------------------------------------------------------------- C6
RECURSIVE Concat(_)
Concat(lists) == IF lists = <<>> THEN <<>> ELSE Head(lists) \o Concat(Tail(lists))

CeilDiv(n, b) == (n + b - 1) \div b

LoopFinished == pc \in {"exit", "done"}

\* C6: the loop forms ceil(N / B) slices; they are consecutive pieces of the
\* list, each of B identifiers but the last, which has N mod B when that is
\* not zero; while the loop runs the slices formed so far make up a prefix.
C6_Batches ==
    LET n == Len(video_ids)
        formed == Concat(batches)
    IN /\ Len(formed) <= n
       /\ formed = SubSeq(video_ids, 1, Len(formed))
       /\ \A k \in 1..(Len(batches) - 1) : Len(batches[k]) = BATCH_SIZE
       /\ LoopFinished =>
            /\ Len(batches) = CeilDiv(n, BATCH_SIZE)
            /\ formed = video_ids
            /\ n > 0 => Len(batches[Len(batches)]) =
                            IF n % BATCH_SIZE # 0 THEN n % BATCH_SIZE ELSE BATCH_SIZE

\* A list of three identifiers was cut into a slice of two and a slice of one.
C6_Witness ==
    /\ pc = "done"
    /\ Len(video_ids) = 3
    /\ BATCH_SIZE = 2
    /\ Len(batches) = 2
    /\ Len(batches[2]) = 1

\* ------------------------------------------------------------------- C7
\* C7: when a request of a batch has been issued, every position of every
\* earlier batch has finished its coroutine, and every earlier batch was
\* committed or had returned no comments.
C7_BatchesSequential ==
    \A p \in Positions :
        requests[p] > 0 =>
            \A q \in Positions :
                BatchStart(q) < BatchStart(p) =>
                    /\ q \in resolved
                    /\ BatchStart(q) \in settled

\* The requests of a second batch are in flight after a first batch of two
\* was committed.
C7_Witness ==
    /\ pc = "gather"
    /\ i = 2
    /\ BATCH_SIZE = 2
    /\ LinesOf("INFO", {"inserted"}, 1) # {}
    /\ \E t \in 1..Len(tasks) : tasks[t].st = "inflight"

\* ------------------------------------------------------------------- C8
\* C8: when a batch has been committed, the rows it added are rows its
\* coroutines returned, one for each returned id the table did not hold, and
\* the rows held before are kept; a position answered with a 403 that says
\* disabled has one informational line and one request.
C8_FanIn ==
    /\ pc = "log" =>
          /\ snapshot \subseteq store
          /\ (store \ snapshot) \subseteq ReturnedRows
          /\ Ids(store) = Ids(snapshot) \cup Ids(ReturnedRows)
    /\ \A p \in Positions :
          /\ Cardinality(LinesOf("INFO", {"disabled"}, p)) <= requests[p]
          /\ LinesOf("INFO", {"disabled"}, p) # {} =>
                /\ requests[p] = 1
                /\ LinesOf("ERROR", {"http", "forbidden"}, p) = {}

\* The scenario: ["v1", "v2"] in one batch, v1 returned c1, v2 was answered
\* 403 commentsDisabled; the table holds c1 alone, v2 has one informational
\* line and one request.
C8_Witness ==
    /\ pc = "done"
    /\ video_ids = <<"v1", "v2">>
    /\ BATCH_SIZE = 2
    /\ results = << <<Normalize([id |-> "c1", textDisplay |-> "x"], "v1")>>, <<>> >>
    /\ store = {Normalize([id |-> "c1", textDisplay |-> "x"], "v1")}
    /\ Cardinality(LinesOf("INFO", {"disabled"}, 2)) = 1
    /\ requests[2] = 1

\* ------------------------------------------------------------------- C9
\* C9: when the process has been killed or has ended on an exception, the
\* durable table still holds every row the connection held at the last
\* commit, that is every row of the batches committed before.
C9_CrashKeepsCommitted ==
    pc \in {"crashed", "aborted"} =>
        /\ written \subseteq store
        /\ snapshot \subseteq store

\* The process was killed in a later batch after an earlier batch had
\* committed a fetched row.
C9_Witness ==
    /\ pc = "crashed"
    /\ Len(batches) >= 2
    /\ LinesOf("INFO", {"inserted"}, 1) # {}
    /\ \E r \in written : r.text # "old"

\* ------------------------------------------------------------------ C10
\* Every position was requested and finished, every batch was committed or
\* was empty, and the connection holds nothing uncommitted.
AllProcessed ==
    /\ i >= Len(video_ids)
    /\ \A p \in Positions :
          /\ requests[p] >= 1
          /\ p \in resolved
          /\ BatchStart(p) \in settled
    /\ conn = store

\* C10: when every request is answered, the run ends, done or aborted by an
\* exception; it is done only with every batch processed.
C10_Terminates ==
    /\ <>(pc \in {"done", "aborted"})
    /\ [](pc = "done" => AllProcessed)

\* A run of two batches ended done.
C10_Witness ==
    /\ pc = "done"
    /\ Len(batches) = 2
    /\ LinesOf("INFO", {"success"}, 0) # {}

\* ------------------------------------------------------------------ C11
LinkedIffReply(row) == (row.is_reply_to = Null) <=> ~row.is_reply

\* The rows the fetch path has produced and holds in memory.
FetchedRows ==
    UNION ({Range(tasks[t].result) : t \in 1..Len(tasks)}
           \cup {Range(results[t]) : t \in 1..Len(results)}
           \cup {Range(comments), Range(returned)})

\* C11: is_reply_to is null exactly when is_reply is false, in every row the
\* fetch path produced, in every row fetch_replies produced when its parent
\* id is not null, and in every row of the store, committed or not.
C11_ReplyLink ==
    /\ \A row \in FetchedRows : LinkedIffReply(row)
    /\ parent_id # Null => \A k \in 1..Len(replies) : LinkedIffReply(replies[k])
    /\ \A row \in store \cup conn : LinkedIffReply(row)

C11_Witness ==
    /\ pc = "returned"
    /\ parent_id # Null
    /\ replies # <<>>
    /\ \A k \in 1..Len(replies) :
          replies[k].is_reply /\ replies[k].is_reply_to = parent_id

\* ------------------------------------------------------------------ C12
\* The number of log lines with this level, message and argument.
CountLines(level, msg, arg) == Cardinality(LinesOf(level, {msg}, arg))

\* C12: fetch_comments_with_retry lets no exception of the call out; it makes
\* at most RETRIES calls and none after a call that returned; it returns the
\* value of the first call that did not raise; the k-th call that raised is
\* logged once with the ordinal k; after RETRIES calls that raised it logs
\* the exhaustion line once, as its last line, and returns the empty list.
C12_RetryWrapper ==
    LET n == Len(outcomes) IN
    /\ n <= RETRIES
    /\ \A k \in 1..(n - 1) : outcomes[k].raised
    /\ pc = "raised" => n = 0
    /\ \A k \in 1..RETRIES :
          CountLines("ERROR", "attempt", k) =
              IF k <= n /\ outcomes[k].raised THEN 1 ELSE 0
    /\ pc = "fetch_comments_with_retry" =>
          /\ \A k \in 1..n : outcomes[k].raised
          /\ CountLines("ERROR", "exhausted", RETRIES) = 0
    /\ (pc = "returned" /\ n > 0) =>
          IF outcomes[n].raised
          THEN /\ n = RETRIES
               /\ CountLines("ERROR", "exhausted", RETRIES) = 1
               /\ log[Len(log)] = Line("ERROR", "exhausted", RETRIES)
               /\ returned = <<>>
          ELSE /\ returned = outcomes[n].value
               /\ CountLines("ERROR", "exhausted", RETRIES) = 0

C12_Witness ==
    /\ pc = "returned"
    /\ Len(outcomes) = RETRIES
    /\ \A k \in 1..RETRIES : outcomes[k].raised
    /\ Len(log) = RETRIES + 1
    /\ returned = <<>>

\* ------------------------------------------------------------------ C13
\* C13: no position of the list is requested more than once, the requested
\* positions are a prefix of the list (none is skipped), and a run that
\* leaves the loop without aborting has requested every position once.
C13_OneRequestEach ==
    /\ \A p \in Positions : requests[p] <= 1
    /\ \A p, q \in Positions : (p < q /\ requests[q] = 1) => requests[p] = 1
    /\ LoopFinished => \A p \in Positions : requests[p] = 1

C13_Witness ==
    /\ pc = "done"
    /\ Len(video_ids) = MaxVideos
    /\ BATCH_SIZE = 2
    /\ \A p \in Positions : requests[p] = 1

\* ------------------------------------------------------------------ C14
\* The coroutine of position i + t has read the body of its answer, or has
\* ended on the status alone.
Answered(t) ==
    \/ tasks[t].body # NoBody
    \/ tasks[t].st = "done" /\ tasks[t].status \notin {200, 403}

DisabledLines(p) == LinesOf("INFO", {"disabled"}, p)

ErrorLines(p) == LinesOf("ERROR", {"http", "forbidden"}, p)

\* C14: a 403 answer that says that comments are disabled leaves exactly one
\* informational line and no error line for its position; a 403 answer that
\* does not say so, and an answer of any other status but 200, leaves an
\* error line and no informational disabled-comments line.
C14_Meanings403 ==
    \A t \in 1..Len(tasks) :
        (Answered(t) /\ tasks[t].status # 200) =>
            IF tasks[t].status = 403 /\ SaysDisabled(tasks[t].body)
            THEN /\ Cardinality(DisabledLines(i + t)) = 1
                 /\ ErrorLines(i + t) = {}
            ELSE /\ ErrorLines(i + t) # {}
                 /\ DisabledLines(i + t) = {}

\* C14 for the answers whose body the coroutine reads without raising, and
\* for every answer: no position has both kinds of line.
C14_ReadableBodies ==
    /\ \A t \in 1..Len(tasks) :
          (Answered(t) /\ tasks[t].status # 200 /\ tasks[t].st = "done") =>
              IF tasks[t].status = 403 /\ SaysDisabled(tasks[t].body)
              THEN /\ Cardinality(DisabledLines(i + t)) = 1
                   /\ ErrorLines(i + t) = {}
              ELSE /\ Cardinality(ErrorLines(i + t)) = 1
                   /\ DisabledLines(i + t) = {}
    /\ \A p \in Positions : DisabledLines(p) = {} \/ ErrorLines(p) = {}

\* ------------------------------------------------------------------ C15
\* C15: no step removes or changes a committed row: every row of the store
\* is a row of the store after the step, with the same values.
C15_WriteOnce == [][store \subseteq store']_vars

\* A batch that returned a row with the id of a committed row, and a row
\* with a new id, has been committed: the old row is as it was.
C15_Witness ==
    /\ pc = "log"
    /\ initial # {}
    /\ Ids(initial) \subseteq Ids(ReturnedRows)
    /\ initial \subseteq store
    /\ store # initial

\* ------------------------------------------------------------------ C16
\* C16: at most one session is open, and only while its batch is in gather;
\* every request was issued on the session of the batch its position belongs
\* to; the session is closed when the batch's rows are inserted, when the
\* next batch is formed, and when an exception has ended the run.
C16_SessionPerBatch ==
    /\ Cardinality(open_sessions) <= 1
    /\ open_sessions = IF pc = "gather" THEN {Len(batches)} ELSE {}
    /\ \A p \in Positions :
          requests[p] >= 1 =>
              issued_on[p] = BatchNo(BatchStart(p), BATCH_SIZE)
    /\ (session = "open") <=> (open_sessions # {})

\* The second batch's requests are out on the second session, and the first
\* session is closed.
C16_Witness ==
    /\ pc = "gather"
    /\ Len(batches) = 2
    /\ open_sessions = {2}
    /\ \A p \in Positions :
          requests[p] >= 1 => issued_on[p] = IF p <= BATCH_SIZE THEN 1 ELSE 2

\* ------------------------------------------------------------------ C17
\* The coroutines whose request is out or whose answer is being read.
InFlight == {t \in 1..Len(tasks) : Running(tasks[t])}

\* C17: at most BATCH_SIZE requests are in flight, all of them of the current
\* batch; the run goes on to the insert, and to the next batch, only when
\* every request of the batch has been answered and its coroutine has ended.
C17_ConcurrencyLimit ==
    /\ Cardinality(InFlight) <= BATCH_SIZE
    /\ Len(tasks) <= BATCH_SIZE
    /\ InFlight # {} => pc = "gather"
    /\ pc \in {"insert", "commit", "log"} =>
          \A p \in (i + 1)..(i + Len(batch)) : p \in resolved
    /\ pc \notin {"aborted", "crashed"} =>
          \A p \in Positions : p <= i => p \in resolved

\* A full batch of two was in flight and has been joined.
C17_Witness ==
    /\ pc = "insert"
    /\ BATCH_SIZE = 2
    /\ Len(batch) = 2
    /\ \A p \in (i + 1)..(i + 2) : requests[p] = 1 /\ p \in resolved

\* ------------------------------------------------------------------ C18
\* The loop index of the k-th batch.
BatchIndex(k) == (k - 1) * BATCH_SIZE

\* The k-th batch is over: the loop has gone on to a later index.
Completed(k) == BatchIndex(k) \in settled /\ BatchIndex(k) < i

\* C18: every batch that is over has a batch line in the log, a batch whose
\* identifiers all yielded no comment included.
C18_EveryBatchLogged ==
    \A k \in 1..Len(batches) :
        Completed(k) => CountLines("INFO", "inserted", k) >= 1

\* C18, amended: a batch that is over and returned at least one comment has
\* exactly one batch line, written after its commit; a batch that returned
\* no comment, and a batch that is not over, has none.
C18_NonEmptyBatchLogged ==
    \A k \in 1..Len(batches) :
        /\ CountLines("INFO", "inserted", k) =
              IF Completed(k) /\ BatchIndex(k) \in nonempty THEN 1 ELSE 0
        /\ CountLines("INFO", "inserted", k) = 1 => BatchIndex(k) \in settled

\* The first batch returned comments and has its line, the second returned
\* none and has no line; both are over.
C18_Witness ==
    /\ Len(batches) >= 2
    /\ Completed(1) /\ BatchIndex(1) \in nonempty
    /\ Completed(2) /\ BatchIndex(2) \notin nonempty
    /\ CountLines("INFO", "inserted", 1) = 1
    /\ CountLines("INFO", "inserted", 2) = 0

\* ------------------------------------------------------------------ C19
SuccessLines == LinesOf("INFO", {"success"}, 0)

\* C19: the success line is in the log exactly when the run is done, at most
\* once and as the last line; then every position has been requested and
\* answered, every batch is over and what it inserted is committed; a run
\* that an exception ended, or that is still in a batch, has no such line.
C19_SuccessLine ==
    /\ Cardinality(SuccessLines) <= 1
    /\ SuccessLines # {} <=> pc = "done"
    /\ pc = "done" =>
          /\ AllProcessed
          /\ SuccessLines = {Len(log)}
          /\ \A k \in 1..Len(batches) : Completed(k)
          /\ written \subseteq store

C19_Witness ==
    /\ pc = "done"
    /\ Len(batches) >= 2
    /\ BatchIndex(Len(batches)) \in nonempty
    /\ Cardinality(SuccessLines) = 1
    /\ store # initial

\* ------------------------------------------------------------------ C20
\* The run has inserted no id but the ids the store held when it started.
SameIds == Ids(firstRow) = Ids(initial)

\* Some answer of the current batch carried a stored id with the stored
\* values, or with other values.
ReturnedSame == \E row \in ReturnedRows : row \in initial

ReturnedChanged == \E row \in ReturnedRows : row.id \in Ids(initial) /\ row \notin initial

\* C20: a run over a store that holds the rows of an earlier run, in which
\* the API returns no id but the stored ones, with the stored values or with
\* others, leaves the store as it found it, at every step and at its end.
C20_RunIdempotent ==
    SameIds => store = initial /\ (~Terminated => conn = initial)

C20_Witness ==
    /\ pc = "done"
    /\ initial # {}
    /\ SameIds
    /\ ReturnedSame
    /\ ReturnedChanged
    /\ store = initial

====
